---- MODULE Spec2Model ----
(***************************************************************************)
(* A model of import-check.py: the import extractor (get_imports and the   *)
(* line parsers), the module index (get_modules), the dependency graph     *)
(* walker (traverse_used) and the unused resolver (determine_unused).      *)
(*                                                                         *)
(* Python lists are sequences (duplicates and order kept), `x in list` is  *)
(* membership in the sequence's range, and a raised exception is a result  *)
(* whose ok field is FALSE.  Package keys and module names are compared    *)
(* for equality only, so they are atomic strings; the lines and the file   *)
(* names the parsers cut up are sequences of one-character strings.        *)
(***************************************************************************)
EXTENDS Integers, Sequences, FiniteSets, TLC

VARIABLES
    wgraph,     \* walker: the graph handed to traverse_used
    seed,       \* walker: the dependencies list handed to traverse_used
    walked,     \* walker: the outcome of the call
    graph,      \* resolver: the dependency graph (graph.json)
    modules,    \* resolver: the module index, a dict key -> list of names
    imports,    \* resolver: the caller's imports list (a mutable object)
    imports0,   \* resolver: the contents of that list before the first call
    runs,       \* resolver: the outcomes of the calls made so far, in order
    stmt,       \* extractor: the statement the line last read was written from
    line,       \* extractor: the line last read from a file, as characters
    contrib,    \* extractor: what that line added to the imports list
    collected,  \* extractor: the imports list of get_imports
    nfiles,     \* extractor: how many files os.walk has yielded
    nlines,     \* extractor: how many lines have been read
    reading,    \* extractor: a file is open in parse_file
    result,     \* extractor: what get_imports returned
    os_sep,     \* module index: os.sep of the platform
    installed,  \* module index: the installed files listed so far, in order
    di,         \* module index: the position of get_modules in the dists
    mindex,     \* module index: the modules dict of get_modules
    mstatus     \* module index: running, returned or the exception raised

wvars == <<wgraph, seed, walked>>
rvars == <<graph, modules, imports, imports0, runs>>
evars == <<stmt, line, contrib, collected, nfiles, nlines, reading, result>>
mvars == <<os_sep, installed, di, mindex, mstatus>>
vars == <<wvars, rvars, evars, mvars>>

----------------------------------------------------------------------------
(* Bounds of the model *)

\* the most dependency edges in a graph
MaxEdges == 3
\* the most names in the module list of an indexed package
MaxModules == 2
\* the most entries of the module index
MaxIndexed == 1
\* the most names in the import set
MaxImports == 1
\* the most keys in a seed list given to the walker
MaxSeed == 2
\* how many times in a row the resolver is run on the same objects
MaxRuns == 2
\* the interpreter's recursion limit (sys.getrecursionlimit()), scaled to the
\* graphs of the model: it exceeds the number of records of every graph, and
\* a walk that nests deeper than the number of records has entered the same
\* record twice and so never returns
RecursionLimit == 6

\* The package keys, in the order their records take in the graph.  The code
\* only compares keys and names for equality, so every graph with unique
\* keys is a renaming of one whose records come in this order.
KeyOrder == <<"a", "b", "c", "d">>
KeySet == {KeyOrder[i] : i \in 1..Len(KeyOrder)}

----------------------------------------------------------------------------
(* Python list helpers *)

Range(s) == {s[i] : i \in 1..Len(s)}

RECURSIVE SetToSeq(_)
\* the elements of a finite set of keys as a list, in KeyOrder order
SetToSeq(S) ==
    IF S = {} THEN <<>>
    ELSE LET i == CHOOSE i \in 1..Len(KeyOrder) :
                      /\ KeyOrder[i] \in S
                      /\ \A j \in 1..(i-1) : KeyOrder[j] \notin S
         IN <<KeyOrder[i]>> \o SetToSeq(S \ {KeyOrder[i]})

Reverse(s) == [i \in 1..Len(s) |-> s[Len(s) + 1 - i]]

----------------------------------------------------------------------------
(* Python str helpers; a str is a sequence of one-character strings *)

\* s.startswith(p)
StartsWith(s, p) == Len(p) <= Len(s) /\ SubSeq(s, 1, Len(p)) = p

\* s.endswith(p)
EndsWith(s, p) ==
    Len(p) <= Len(s) /\ SubSeq(s, Len(s) - Len(p) + 1, Len(s)) = p

\* the characters str.strip() removes
Whitespace == {" ", "\t", "\n"}

RECURSIVE LStrip(_)
LStrip(s) ==
    IF s # <<>> /\ Head(s) \in Whitespace THEN LStrip(Tail(s)) ELSE s

RECURSIVE RStrip(_)
RStrip(s) ==
    IF s # <<>> /\ s[Len(s)] \in Whitespace
    THEN RStrip(SubSeq(s, 1, Len(s) - 1)) ELSE s

\* s.strip()
Strip(s) == RStrip(LStrip(s))

RECURSIVE Split(_, _)
\* s.split(c) for a one-character separator: the pieces between the
\* separators, empty pieces kept
Split(s, c) ==
    IF \A i \in 1..Len(s) : s[i] # c THEN <<s>>
    ELSE LET i == CHOOSE i \in 1..Len(s) :
                      s[i] = c /\ \A j \in 1..(i-1) : s[j] # c
         IN <<SubSeq(s, 1, i - 1)>> \o Split(SubSeq(s, i + 1, Len(s)), c)

RECURSIVE Join(_, _)
\* sep.join(parts)
Join(parts, sep) ==
    IF parts = <<>> THEN <<>>
    ELSE IF Len(parts) = 1 THEN parts[1]
    ELSE parts[1] \o sep \o Join(Tail(parts), sep)

ImportWord == <<"i", "m", "p", "o", "r", "t">>
FromWord == <<"f", "r", "o", "m">>

----------------------------------------------------------------------------
(* check_line_import, parse_imports, parse_import_line *)

CheckLineImport(l) ==
    StartsWith(l, ImportWord \o <<" ">>) \/ StartsWith(l, FromWord \o <<" ">>)

NotRelative(i) == ~StartsWith(i, <<".">>)
NotSpecial(i) == ~StartsWith(i, <<"_">>)

\* a variant of parse_imports without the filter on special imports
ParseImportsKeepSpecial(imps) ==
    LET kept == SelectSeq(imps, NotRelative)
    IN [k \in 1..Len(kept) |-> Split(kept[k], ".")[1]]

ParseImports(imps) ==
    LET kept == SelectSeq(SelectSeq(imps, NotRelative), NotSpecial)
    IN [k \in 1..Len(kept) |-> Split(kept[k], ".")[1]]

ParseImportLine(l) ==
    IF StartsWith(l, FromWord)
    THEN ParseImports(<<Split(l, " ")[2]>>)
    ELSE ParseImports(Split(Split(l, " ")[2], ","))

\* the body of the loop of parse_file for one line of the file
ParseFileLine(l) ==
    LET stripped_line == Strip(l)
    IN IF CheckLineImport(stripped_line)
       THEN ParseImportLine(stripped_line)
       ELSE <<>>

----------------------------------------------------------------------------
(* traverse_used *)

RECURSIVE TraverseUsed(_, _, _)
RECURSIVE TraverseLoop(_, _, _, _)

\* The body of `for package in graph` from record i on, with the current
\* contents of the dependencies list.
TraverseLoop(i, dependencies, g, depth) ==
    IF i > Len(g) THEN [ok |-> TRUE, val |-> dependencies]
    ELSE IF g[i].key \in Range(dependencies)
    THEN LET sub_dependencies == g[i].deps IN
         IF Len(sub_dependencies) = 0
         THEN [ok |-> TRUE, val |-> dependencies]
         ELSE LET r == TraverseUsed(sub_dependencies, g, depth + 1) IN
              IF ~r.ok THEN r
              \* the call extended sub_dependencies in place and returned
              \* it; it is appended twice
              ELSE TraverseLoop(i + 1, dependencies \o r.val \o r.val, g, depth)
    ELSE TraverseLoop(i + 1, dependencies, g, depth)

\* traverse_used(dependencies, graph) entered at the given nesting depth; a
\* call nested deeper than the recursion limit raises RecursionError.
TraverseUsed(dependencies, g, depth) ==
    IF depth > RecursionLimit
    THEN [ok |-> FALSE, val |-> <<>>]
    ELSE TraverseLoop(1, dependencies, g, depth)

----------------------------------------------------------------------------
(* determine_unused *)

\* modules[key], or [key] on KeyError
ModuleNames(mods, key) ==
    IF key \in DOMAIN mods THEN mods[key] ELSE <<key>>

\* The `else` branch of the module loop: the package is used.  `used` is
\* the imports list itself.
MarkUsed(st, pkg, g) ==
    LET used1 == Append(st.used, pkg.key) IN
    IF Len(pkg.deps) > 0
    THEN LET r == TraverseUsed(pkg.deps, g, 1) IN
         IF ~r.ok THEN [st EXCEPT !.ok = FALSE, !.used = used1]
         ELSE [st EXCEPT !.used = used1 \o r.val \o r.val]
    ELSE [st EXCEPT !.used = used1]

RECURSIVE ScanModules(_, _, _, _, _)
\* `for module_name in module_names` from name j on
ScanModules(j, module_names, st, pkg, g) ==
    IF j > Len(module_names) THEN st
    ELSE IF module_names[j] \notin Range(st.used)
    THEN ScanModules(j + 1, module_names,
                     [st EXCEPT !.unused = Append(@, pkg.key)], pkg, g)
    ELSE MarkUsed(st, pkg, g)

RECURSIVE ResolveLoop(_, _, _, _)
\* `for package in graph` from record i on
ResolveLoop(i, st, mods, g) ==
    IF i > Len(g) \/ ~st.ok THEN st
    ELSE ResolveLoop(i + 1,
                     ScanModules(1, ModuleNames(mods, g[i].key), st, g[i], g),
                     mods, g)

\* a variant of the final filter that returns every provisional mark
FinalUnusedUnfiltered(unused, used) ==
    Range(unused)

\* unused = set([u for u in unused if u not in set(used)])
FinalUnused(unused, used) ==
    {u \in Range(unused) : u \notin Range(used)}

\* determine_unused(modules, imports, graph): the returned collection, and
\* the contents of the imports list when the call is over.
DetermineUnused(mods, imps, g) ==
    LET st == ResolveLoop(1, [ok |-> TRUE, unused |-> <<>>, used |-> imps],
                          mods, g)
    IN [ok |-> st.ok,
        unused |-> IF st.ok THEN FinalUnused(st.unused, st.used) ELSE {},
        imports |-> st.used]

----------------------------------------------------------------------------
(* The inputs of the model *)

\* the edges of a graph of n records: (record, dependency key) pairs
EdgeSets(n) ==
    {E \in SUBSET ((1..n) \X KeySet) : Cardinality(E) <= MaxEdges}

DepsOf(i, E, desc) ==
    LET s == SetToSeq({k \in KeySet : <<i, k>> \in E})
    IN IF desc THEN Reverse(s) ELSE s

MakeGraph(n, E, desc) ==
    [i \in 1..n |-> [key |-> KeyOrder[i], deps |-> DepsOf(i, E, desc)]]

\* every graph of the model; a dependency may name the record itself, a
\* record of a cycle, or a key that has no record
Graphs ==
    UNION {{MakeGraph(n, E, desc) : E \in EdgeSets(n), desc \in BOOLEAN} :
              n \in 1..Len(KeyOrder)}

\* the lists of at most n distinct keys, one per set of keys
KeyLists(n) ==
    {SetToSeq(S) : S \in {T \in SUBSET KeySet : Cardinality(T) <= n}}

RECURSIVE SeqsUpTo(_, _)
\* the sequences over S of length at most n
SeqsUpTo(S, n) ==
    IF n = 0 THEN {<<>>}
    ELSE LET shorter == SeqsUpTo(S, n - 1)
         IN shorter \cup {Append(s, x) : s \in shorter, x \in S}

\* the module indexes: dicts with at most MaxIndexed keys, each mapped to a
\* list of at most MaxModules names; a name may be the key of its package,
\* the key of another one, or repeated
Indexes ==
    UNION {[D -> SeqsUpTo(KeySet, MaxModules)] :
              D \in {T \in SUBSET KeySet : Cardinality(T) <= MaxIndexed}}

\* the import lists get_imports can return: no duplicates
ImportLists == KeyLists(MaxImports)

----------------------------------------------------------------------------
(* The extractor before get_imports has read anything; also the state of  *)
(* its variables in the specifications of the other components            *)

NoStmt == [kind |-> "none"]

EIdle ==
    /\ stmt = NoStmt
    /\ line = <<>>
    /\ contrib = <<>>
    /\ collected = <<>>
    /\ nfiles = 0
    /\ nlines = 0
    /\ reading = FALSE
    /\ result = [done |-> FALSE, val |-> <<>>]

MIdle ==
    /\ os_sep = "/"
    /\ installed = <<>>
    /\ di = 0
    /\ mindex = <<>>
    /\ mstatus = "idle"

----------------------------------------------------------------------------
(* The walker on its own: one call of traverse_used *)

WIdle == [status |-> "idle", val |-> <<>>]

WInit ==
    /\ wgraph \in Graphs
    /\ seed \in KeyLists(MaxSeed)
    /\ walked = WIdle

\* dependencies = traverse_used(seed, graph)
Walk ==
    /\ walked.status = "idle"
    /\ LET r == TraverseUsed(seed, wgraph, 1)
       IN walked' = [status |-> IF r.ok THEN "returned" ELSE "RecursionError",
                     val |-> r.val]
    /\ UNCHANGED <<wgraph, seed, rvars, evars, mvars>>

RIdle ==
    /\ graph = <<>>
    /\ modules = <<>>
    /\ imports = <<>>
    /\ imports0 = <<>>
    /\ runs = <<>>

WalkerInit == WInit /\ RIdle /\ EIdle /\ MIdle
WalkerNext == Walk
WalkerSpec == WalkerInit /\ [][WalkerNext]_vars

----------------------------------------------------------------------------
(* The resolver: determine_unused called on the same objects, repeatedly *)

RInit ==
    /\ graph \in Graphs
    /\ modules \in Indexes
    /\ imports0 \in ImportLists
    /\ imports = imports0
    /\ runs = <<>>

\* unused_requirements = determine_unused(modules, imports, graph)
Resolve ==
    /\ Len(runs) < MaxRuns
    /\ \A i \in 1..Len(runs) : runs[i].ok
    /\ LET r == DetermineUnused(modules, imports, graph)
       IN /\ runs' = Append(runs, [ok |-> r.ok, unused |-> r.unused])
          /\ imports' = r.imports
    /\ UNCHANGED <<graph, modules, imports0, wvars, evars, mvars>>

WIdleAll ==
    /\ wgraph = <<>>
    /\ seed = <<>>
    /\ walked = WIdle

ResolverInit == RInit /\ WIdleAll /\ EIdle /\ MIdle
ResolverNext == Resolve
ResolverSpec == ResolverInit /\ [][ResolverNext]_vars


----------------------------------------------------------------------------
(* The extractor: get_imports over the files os.walk yields, parse_file   *)
(* over the lines of each                                                  *)

\* the most files os.walk yields
MaxFiles == 2
\* the most lines read, over all files
MaxLines == 2
\* the most names listed in one import statement
MaxNames == 2

\* dotted module names, as lists of segments
SegA == <<"a">>
SegB == <<"b">>
SegC == <<"c">>
SegP == <<"_", "p">>
Dotted == {<<SegA>>, <<SegA, SegB, SegC>>, <<SegB>>, <<SegP>>}

\* `import n1, n2 as c`: the listed names, whether a comma is followed by a
\* space, and which name (0: none) is followed by ` as c`
ImportStmts ==
    {[kind |-> "import", names |-> ns, space |-> sp, alias |-> al] :
        ns \in SeqsUpTo(Dotted, MaxNames) \ {<<>>}, sp \in BOOLEAN,
        al \in 0..MaxNames}

\* `from m import y`: the module as written (absolute, relative or
\* special) and the number of spaces after `from`
FromModules == {<<"a">>, <<"a", ".", "b", ".", "c">>, <<".">>, <<".", "a">>, <<"_", "p">>}
FromStmts ==
    {[kind |-> "from", module |-> m, gap |-> n] : m \in FromModules, n \in 1..2}

\* lines that are no import statement
RawTexts == {<<"#", " ", "i", "m", "p", "o", "r", "t", " ", "a">>, <<"x", " ", "=", " ", "1">>, <<"i", "m", "p", "o", "r", "t">>, <<"i", "m", "p", "o", "r", "t", "l", "i", "b", ".", "r", "e", "l", "o", "a", "d", "(", "a", ")">>, <<"f", "r", "o", "m", "a", "g", "e", " ", "=", " ", "1">>, <<>>}
RawStmts == {[kind |-> "raw", text |-> t] : t \in RawTexts}

\* the statements a line is written from; a single name is followed by no
\* comma, and the alias follows one of the listed names
Stmts ==
    {st \in ImportStmts :
        st.alias <= Len(st.names) /\ (Len(st.names) = 1 => ~st.space)}
        \cup FromStmts \cup RawStmts

\* the text of a statement
Render(st) ==
    IF st.kind = "import"
    THEN LET item(i) == Join(st.names[i], <<".">>)
                           \o (IF st.alias = i THEN <<" ", "a", "s", " ", "c">> ELSE <<>>)
         IN ImportWord \o <<" ">>
              \o Join([i \in 1..Len(st.names) |-> item(i)],
                      IF st.space THEN <<",", " ">> ELSE <<",">>)
    ELSE IF st.kind = "from"
    THEN FromWord \o [i \in 1..st.gap |-> " "] \o st.module \o <<" ", "i", "m", "p", "o", "r", "t", " ", "y">>
    ELSE st.text

\* what a line starts with in the file
Indents == {<<>>, <<" ", "\t">>}

\* the names of the files os.walk yields
FileNames == {<<"m", ".", "p", "y">>, <<"m", ".", "p", "y", "c">>, <<"p", "y">>}

\* `for file in files`: the next file; one that ends in .py is opened
WalkFile ==
    /\ ~reading /\ ~result.done
    /\ nfiles < MaxFiles
    /\ \E file \in FileNames : reading' = EndsWith(file, <<".", "p", "y">>)
    /\ nfiles' = nfiles + 1
    /\ UNCHANGED <<stmt, line, contrib, collected, nlines, result>>
    /\ UNCHANGED <<wvars, rvars, mvars>>

\* `for line in f`: the next line of the open file
ReadLine ==
    /\ reading
    /\ nlines < MaxLines
    /\ \E st \in Stmts, indent \in Indents :
          LET l == indent \o Render(st) \o <<"\n">>
          IN /\ stmt' = st
             /\ line' = l
             /\ contrib' = ParseFileLine(l)
             /\ collected' = collected \o ParseFileLine(l)
    /\ nlines' = nlines + 1
    /\ UNCHANGED <<nfiles, reading, result, wvars, rvars, mvars>>

\* the open file has no more lines
EndOfFile ==
    /\ reading
    /\ reading' = FALSE
    /\ UNCHANGED <<stmt, line, contrib, collected, nfiles, nlines, result>>
    /\ UNCHANGED <<wvars, rvars, mvars>>

\* list(set(imports)): the distinct entries, in any order
ListOfSet(s) ==
    {t \in [1..Cardinality(Range(s)) -> Range(s)] :
        \A i, j \in DOMAIN t : t[i] = t[j] => i = j}

\* return list(set(imports))
ReturnImports ==
    /\ ~reading /\ ~result.done
    /\ \E t \in ListOfSet(collected) : result' = [done |-> TRUE, val |-> t]
    /\ UNCHANGED <<stmt, line, contrib, collected, nfiles, nlines, reading>>
    /\ UNCHANGED <<wvars, rvars, mvars>>

ExtractorInit == EIdle /\ WIdleAll /\ RIdle /\ MIdle
ExtractorNext == WalkFile \/ ReadLine \/ EndOfFile \/ ReturnImports
ExtractorSpec == ExtractorInit /\ [][ExtractorNext]_vars

----------------------------------------------------------------------------
(* get_modules *)

\* the separators os.path knows on the platform: os.sep and os.altsep
PathSeps(sep) == IF sep = "\\" THEN {"\\", "/"} ELSE {sep}

\* the last position of s that holds a character of S, 0 if there is none
LastIndexIn(s, S) ==
    IF \A i \in 1..Len(s) : s[i] \notin S THEN 0
    ELSE CHOOSE i \in 1..Len(s) :
             s[i] \in S /\ \A j \in (i+1)..Len(s) : s[j] \notin S

\* os.path.splitext(filename)[0]: the name without its extension; the
\* extension starts at the last dot of the last path component, leading
\* dots of the component apart
SplitExtRoot(filename, sep) ==
    LET sepIndex == LastIndexIn(filename, PathSeps(sep))
        dotIndex == LastIndexIn(filename, {"."})
    IN IF dotIndex > sepIndex
          /\ \E i \in (sepIndex + 1)..(dotIndex - 1) : filename[i] # "."
       THEN SubSeq(filename, 1, dotIndex - 1)
       ELSE filename

InitName == <<"_", "_", "i", "n", "i", "t", "_", "_">>
TestsName == <<"t", "e", "s", "t", "s">>

\* the body of `for filename, _, _ in dist.list_installed_files()` for one
\* file of the dist with the given key: the modules dict afterwards, or the
\* exception raised
ListedFile(mods, key, filename, sep) ==
    IF ~EndsWith(filename, <<".", "p", "y">>) THEN [status |-> "running", modules |-> mods]
    ELSE
    LET parts0 == Split(SplitExtRoot(filename, sep), sep)
        parts == IF Len(parts0) = 1
                 THEN Split(SplitExtRoot(filename, sep), "/")
                 ELSE parts0
        last == parts[Len(parts)]
    IN IF StartsWith(last, <<"_">>) /\ ~StartsWith(last, <<"_", "_">>)
       THEN [status |-> "running", modules |-> mods]
       ELSE IF last = InitName
       THEN IF Len(parts) < 2
            \* parts[-2] of a list of one element
            THEN [status |-> "IndexError", modules |-> mods]
            ELSE IF parts[Len(parts) - 1] # TestsName
            THEN LET module == parts[Len(parts) - 1]
                 IN [status |-> "running",
                     modules |-> IF key \in DOMAIN mods
                                 THEN [mods EXCEPT ![key] = Append(@, module)]
                                 ELSE mods @@ (key :> <<module>>)]
            ELSE [status |-> "running", modules |-> mods]
       ELSE [status |-> "running", modules |-> mods]

----------------------------------------------------------------------------
(* The module index: get_modules over the installed files of the dists *)

\* the most installed files listed, over all dists
MaxInstalled == 2
\* the most segments of an installed path
MaxDepth == 3

\* the keys of the dists dp.get_distributions() yields, in order
Dists == <<"foo", "bar">>

\* path segments: a package directory, a tests directory, a package entry
\* point and an internal module
Segments == {<<"f", "o", "o">>, TestsName, InitName, <<"_", "i", "n", "t", "e", "r", "n", "a", "l">>}
Extensions == {<<".", "p", "y">>, <<".", "p", "y", "c">>}

\* an installed path: its segments, the separator its dist was recorded
\* with (os.sep, or `/` whatever the platform), its extension
InstalledPaths(sep) ==
    {[segs |-> sg, sep |-> sp, ext |-> e] :
        sg \in SeqsUpTo(Segments, MaxDepth) \ {<<>>}, sp \in {sep, "/"},
        e \in Extensions}

\* the file name list_installed_files() gives for a path
FileName(path) == Join(path.segs, <<path.sep>>) \o path.ext

MInit ==
    /\ os_sep \in {"/", "\\"}
    /\ installed = <<>>
    /\ di = 1
    /\ mindex = <<>>
    /\ mstatus = "running"

\* the next installed file of the current dist
ListFile ==
    /\ mstatus = "running"
    /\ di <= Len(Dists)
    /\ Len(installed) < MaxInstalled
    /\ \E path \in InstalledPaths(os_sep) :
          LET r == ListedFile(mindex, Dists[di], FileName(path), os_sep)
          IN /\ installed' = Append(installed, [key |-> Dists[di], path |-> path])
             /\ mindex' = r.modules
             /\ mstatus' = r.status
    /\ UNCHANGED <<os_sep, di, wvars, rvars, evars>>

\* the current dist has no more files: `for dist in dists` moves on
NextDist ==
    /\ mstatus = "running"
    /\ di <= Len(Dists)
    /\ di' = di + 1
    /\ UNCHANGED <<os_sep, installed, mindex, mstatus, wvars, rvars, evars>>

\* return modules
ReturnModules ==
    /\ mstatus = "running"
    /\ di > Len(Dists)
    /\ mstatus' = "returned"
    /\ UNCHANGED <<os_sep, installed, di, mindex, wvars, rvars, evars>>

ModulesInit == MInit /\ WIdleAll /\ RIdle /\ EIdle
ModulesNext == ListFile \/ NextDist \/ ReturnModules
ModulesSpec == ModulesInit /\ [][ModulesNext]_vars

----------------------------------------------------------------------------
(* What the dependency edges of a graph reach *)

\* the direct dependency keys of the records whose key is in S
DirectDeps(S, g) ==
    UNION {Range(g[i].deps) : i \in {j \in 1..Len(g) : g[j].key \in S}}

RECURSIVE Closure(_, _)
\* S with every key reachable from it
Closure(S, g) ==
    LET N == S \cup DirectDeps(S, g)
    IN IF N = S THEN S ELSE Closure(N, g)

\* the keys reachable from S over one or more edges
Reach(S, g) == Closure(DirectDeps(S, g), g)

Acyclic(g) == \A i \in 1..Len(g) : g[i].key \notin Reach({g[i].key}, g)

\* the module lists of the index hold at most one name each
SingleNamed(mods) == \A k \in DOMAIN mods : Len(mods[k]) <= 1

\* record i of g has a module name in the import list imps
Imported(i, mods, imps, g) ==
    \E j \in 1..Len(ModuleNames(mods, g[i].key)) :
        ModuleNames(mods, g[i].key)[j] \in Range(imps)

\* the permutations of 1..n
Perms(n) == {f \in [1..n -> 1..n] : \A i, j \in 1..n : f[i] = f[j] => i = j}

Permuted(g, f) == [i \in 1..Len(g) |-> g[f[i]]]

----------------------------------------------------------------------------
(* Claims about the walker, under WalkerSpec *)

\* C2: on an acyclic graph the walker returns a collection that holds every
\* seed key and every key reachable from a seed key, to any depth, also when
\* a record without dependencies whose key is in the working set comes
\* before other matching records.
C2_WalkerReturnsClosure ==
    (walked.status = "returned" /\ Acyclic(wgraph))
        => Closure(Range(seed), wgraph) \subseteq Range(walked.val)

\* C3: the walker terminates on every graph and every seed list, cyclic
\* graphs and self-dependencies included: the nesting of its calls stays
\* bounded and the call returns a result.
C3_WalkerTerminates ==
    walked.status # "RecursionError"

----------------------------------------------------------------------------
(* Claims about the resolver, under ResolverSpec *)

\* C1: on an acyclic graph the result of the resolver holds no key that is
\* reachable, over one or more dependency edges, from a package one of whose
\* module names is in the import set.
C1_NoReachableReported ==
    (Len(runs) >= 1 /\ runs[1].ok /\ Acyclic(graph))
        => \A i \in 1..Len(graph) :
              Imported(i, modules, imports0, graph)
                  => Reach({graph[i].key}, graph) \cap runs[1].unused = {}

\* C4: two calls in a row on the same objects return set-equal results, and
\* the first call leaves the import list it was given unchanged.
C4_Idempotent ==
    /\ (Len(runs) = 1 /\ runs[1].ok) => imports = imports0
    /\ (Len(runs) = 2 /\ runs[1].ok /\ runs[2].ok)
           => runs[1].unused = runs[2].unused

\* C5: a package with at least one module name in the import set is never in
\* the result, wherever the matching name stands in its module list and
\* wherever its record stands in the graph.
C5_ImportedNeverReported ==
    \A r \in 1..Len(runs) : \A i \in 1..Len(graph) :
        (runs[r].ok /\ Imported(i, modules, imports0, graph))
            => graph[i].key \notin runs[r].unused

\* C5 witness: a call has returned a non-empty result; a record that is not
\* the first of the graph has two module names, the first one not imported
\* (the package was marked provisionally unused) and the second one imported.
C5_Witness ==
    /\ Len(runs) >= 1 /\ runs[1].ok /\ runs[1].unused # {}
    /\ \E i \in 2..Len(graph) :
          /\ graph[i].key \in DOMAIN modules
          /\ Len(modules[graph[i].key]) = 2
          /\ modules[graph[i].key][1] \notin Range(imports)
          /\ modules[graph[i].key][2] \in Range(imports0)
          /\ graph[i].key \notin runs[1].unused

\* C6: a package that is in the module index with an empty module list, and
\* whose key never reaches the used-accumulator, is in the result.
C6_EmptyListReported ==
    (Len(runs) = 1 /\ runs[1].ok)
        => \A i \in 1..Len(graph) :
              ( /\ graph[i].key \in DOMAIN modules
                /\ modules[graph[i].key] = <<>>
                /\ graph[i].key \notin Range(imports) )
                  => graph[i].key \in runs[1].unused

\* C10: with at most one module name per package and an acyclic graph, every
\* permutation of the records of the graph gives a set-equal result.
C10_RecordOrderIrrelevant ==
    (Len(runs) = 1 /\ runs[1].ok /\ Acyclic(graph) /\ SingleNamed(modules))
        => \A f \in Perms(Len(graph)) :
              LET r == DetermineUnused(modules, imports0, Permuted(graph, f))
              IN r.ok /\ r.unused = runs[1].unused


----------------------------------------------------------------------------
(* Claims about the extractor, under ExtractorSpec *)

\* the first segments of the names an import statement lists
FirstSegments(st) == {st.names[i][1] : i \in 1..Len(st.names)}

\* C7: a line `import n1, n2 as c` (a comma may be followed by a space, a
\* name by ` as <alias>`) contributes exactly the first dotted segments of
\* the listed names, and never the empty string.  The statement is taken for
\* names that do not start with `_`, which parse_imports filters out.
C7_ImportLineFirstSegments ==
    (stmt.kind = "import" /\ SegP \notin FirstSegments(stmt))
        => Range(contrib) = FirstSegments(stmt)

NoDuplicates(s) == \A i, j \in 1..Len(s) : s[i] = s[j] => i = j

\* C8: the collection get_imports returns has no duplicate entry and no
\* entry that starts with `.` or `_`, and a line adds to the imports list
\* only if its stripped form starts with `import ` or `from `.
C8_ExtractorOutput ==
    /\ result.done =>
          /\ NoDuplicates(result.val)
          /\ Range(result.val) = Range(collected)
          /\ \A i \in 1..Len(result.val) :
                result.val[i] = <<>> \/ result.val[i][1] \notin {".", "_"}
    /\ contrib # <<>> =>
          \/ StartsWith(Strip(line), <<"i", "m", "p", "o", "r", "t", " ">>)
          \/ StartsWith(Strip(line), <<"f", "r", "o", "m", " ">>)

\* C8 witness: get_imports has returned after dropping a duplicate, and the
\* line last read listed a special name beside one that it contributed.
C8_Witness ==
    /\ result.done
    /\ Len(result.val) < Len(collected)
    /\ stmt.kind = "import" /\ ~stmt.space /\ stmt.alias = 0
    /\ SegP \in FirstSegments(stmt)
    /\ contrib # <<>>


----------------------------------------------------------------------------
(* Claims about the module index, under ModulesSpec *)

\* a path whose last segment is __init__ and whose second-to-last segment is
\* not tests
Qualifies(path) ==
    /\ path.ext = <<".", "p", "y">>
    /\ path.segs[Len(path.segs)] = <<"_", "_", "i", "n", "i", "t", "_", "_">>
    /\ Len(path.segs) >= 2
    /\ path.segs[Len(path.segs) - 1] # <<"t", "e", "s", "t", "s">>

RECURSIVE ExpectedModules(_, _)
\* the second-to-last segments of the qualifying paths of a key among the
\* first n installed files, in path order, duplicates kept
ExpectedModules(key, n) ==
    IF n = 0 THEN <<>>
    ELSE LET f == installed[n]
         IN IF f.key = key /\ Qualifies(f.path)
            THEN Append(ExpectedModules(key, n - 1),
                        f.path.segs[Len(f.path.segs) - 1])
            ELSE ExpectedModules(key, n - 1)

\* the modules dict maps every key to the expected list, and holds no key
\* without a qualifying path
IndexAsExpected ==
    \A k \in Range(Dists) :
        LET e == ExpectedModules(k, Len(installed))
        IN IF e = <<>> THEN k \notin DOMAIN mindex
           ELSE k \in DOMAIN mindex /\ mindex[k] = e

\* C9: for every list of installed source-file paths, get_modules maps each
\* key to exactly the list of the second-to-last segments of its qualifying
\* paths; every other path adds nothing, and a key with no qualifying path is
\* absent.
C9_ModuleIndexExact ==
    /\ mstatus # "IndexError"
    /\ IndexAsExpected

====
